---------------------------- MODULE Spec2Model ----------------------------
(***************************************************************************)
(* State-machine model of src/app.py (MoodBoard Maker): the three MongoDB  *)
(* collections, the upload directory, the controller's session fields and  *)
(* the state of the Login, Editor, Gallery and MoodBoard pages.  One       *)
(* action per GUI handler; the answers the user gives to the dialogs a     *)
(* handler opens are the handler's inputs.                                 *)
(*                                                                         *)
(* Conventions.  Python's None and the empty string are both falsy and the *)
(* code only ever tests truthiness, so None is written "" for strings and  *)
(* <<>> for usernames and paths.  Text typed into the username entry is a  *)
(* sequence of one-character strings so that strip() can be computed.      *)
(* Floats are integers in units of 1/10000 (filter controls) or whole      *)
(* pixels (canvas coordinates, which tk reports as integral floats).       *)
(***************************************************************************)
EXTENDS Integers, Sequences, FiniteSets, TLC

(* ------------------------------ bounds -------------------------------- *)
\* number of datetime.utcnow() reads (one per handler that stamps a record)
MaxClock == 3
\* number of images on the canvas
MaxItems == 1
\* number of saved-image records
MaxImages == 1
\* number of files in the upload directory
MaxFiles == 1
\* saved images that may exist at once where saves are repeated
MaxSaves == 2

(* ------------------------- program constants -------------------------- *)
ThumbBox == 300
AddBase == 40
AddStep == 10
BlurEps == 100
EnhEps == 10
Neutral == 10000

(* ------------------------------ inputs -------------------------------- *)
\* text typed into the username entry
UsernameInputs == { <<" ">>, <<"a">>, <<"a", " ">>, <<"b">> }
\* text typed into the password entry
PasswordInputs == { "", "p", "q" }
\* bcrypt.gensalt() outcomes
Salts == { 1, 2 }
\* answers to simpledialog.askstring: "" stands for Cancel / empty text
NameInputs == { "", "N", "M" }
\* pointer positions of mouse events on the canvas
ClickPoints == { <<55, 55>>, <<600, 600>> }
DragPoints == { <<135, 95>> }
\* slider / checkbox values the user can set
BlurInputs == { 0, 50, 20000 }
EnhInputs == { Neutral, 15000 }

NoUser == <<>>
NoPath == <<>>
DiskDir == <<"/">>
\* files found on disk by the file dialogs: path = <<directory, stamp, base>>
DiskPhoto == <<DiskDir, 0, "photo">>
DiskTall == <<DiskDir, 0, "tall">>
DiskNotes == <<DiskDir, 0, "notes">>
DiskPaths == { DiskPhoto, DiskTall, DiskNotes }
\* answers to EditorPage's file dialog, and to MoodBoardPage's
UploadChoices == { NoPath, DiskPhoto, DiskNotes }
AddChoices == { NoPath, DiskNotes }

NoImage == [name |-> "", mode |-> "", w |-> 0, h |-> 0, ops |-> <<>>]
\* what the files hold; "notes" is not an image (Image.open raises)
DiskFiles ==
    (DiskPhoto :> [name |-> "photo", mode |-> "RGB", w |-> 1000, h |-> 337, ops |-> <<>>])
    @@ (DiskTall :> [name |-> "tall", mode |-> "RGB", w |-> 213, h |-> 311, ops |-> <<>>])
    @@ (DiskNotes :> [name |-> "", mode |-> "", w |-> 0, h |-> 0, ops |-> <<>>])

(* ------------------------------ state --------------------------------- *)
VARIABLES
    users, images, boards,      \* the three collections, in insertion order
    files,                      \* file system: path -> stored image
    clock,                      \* last value datetime.utcnow() returned
    current_user, current_image_path, current_original_image, current_work_image,
    page,                       \* the page raised by show_page
    var_grayscale, blur_var, brightness_var, contrast_var,
    gallery,                    \* paths of the thumbnails GalleryPage.reload drew
    previews,                   \* paths with an open (non-modal) preview window
    board_docs,                 \* MoodBoardPage._board_docs
    sel,                        \* boards_list.curselection(): index or 0
    board_items,                \* MoodBoardPage.board_items, in insertion order
    canvas,                     \* the tk canvas display list, bottom to top
    selected_item,              \* canvas id of the grabbed meta, 0 for None
    drag_offset, current_board,
    button_down,                \* mouse button 1 is held on the canvas
    placed_by,                  \* history: who was logged in when board_items[i] was placed
    saved_here,                 \* history: save_board wrote (current_user, current_board)
                                \* since that pair became current
    scn,                        \* history: progress through the board scenario
    checked                     \* per app instance on this database: the (username,
                                \* password) its attempt_register found free and has
                                \* not inserted yet

dbVars == <<users, images, boards, files, clock>>
ctlVars == <<current_user, current_image_path, current_original_image, current_work_image>>
editVars == <<var_grayscale, blur_var, brightness_var, contrast_var>>
galVars == <<gallery, previews>>
listVars == <<board_docs, sel>>
canvasVars == <<board_items, canvas, selected_item, drag_offset, placed_by>>
mbVars == <<board_docs, sel, board_items, canvas, selected_item, drag_offset,
            placed_by, current_board>>
vars == <<users, images, boards, files, clock,
          current_user, current_image_path, current_original_image, current_work_image,
          page, var_grayscale, blur_var, brightness_var, contrast_var,
          gallery, previews, board_docs, sel, board_items, canvas,
          selected_item, drag_offset, current_board, button_down,
          placed_by, saved_here, scn, checked>>

(* ----------------------------- helpers -------------------------------- *)
Range(s) == { s[i] : i \in DOMAIN s }

RECURSIVE SelectSeqIdx(_, _, _)
\* the subsequence of s at the indices in keep, in order
SelectSeqIdx(s, keep, i) ==
    IF i > Len(s) THEN <<>>
    ELSE (IF i \in keep THEN <<s[i]>> ELSE <<>>) \o SelectSeqIdx(s, keep, i + 1)

RemoveAt(s, i) == SelectSeqIdx(s, DOMAIN s \ {i}, 1)

Abs(n) == IF n < 0 THEN -n ELSE n

RECURSIVE lstrip(_)
lstrip(s) == IF s # <<>> /\ Head(s) = " " THEN lstrip(Tail(s)) ELSE s

RECURSIVE rstrip(_)
rstrip(s) == IF s # <<>> /\ s[Len(s)] = " " THEN rstrip(SubSeq(s, 1, Len(s) - 1)) ELSE s

\* str.strip()
strip(s) == rstrip(lstrip(s))

\* bcrypt: the stored hash carries its salt and the digest of (salt, password)
hash_password(p, salt) == [salt |-> salt, digest |-> <<salt, p>>]

check_password(p, hashed) == <<hashed.salt, p>> = hashed.digest

\* collection.find_one(filter): index of the first matching document, 0 if none
FirstIndex(col, Match(_)) ==
    LET hits == { i \in DOMAIN col : Match(col[i]) }
    IN IF hits = {} THEN 0 ELSE CHOOSE i \in hits : \A j \in hits : i <= j

\* cursor.sort("saved_at", -1): the matching documents, newest first
RECURSIVE SortDesc(_)
SortDesc(S) ==
    IF S = {} THEN <<>>
    ELSE LET top == CHOOSE d \in S : \A e \in S : e.saved_at <= d.saved_at
         IN <<top>> \o SortDesc(S \ {top})

(* --------------------------- initial state ---------------------------- *)
ScnOff == [step |-> 0, name |-> "", path |-> NoPath]

\* the app instances running against the database
Instances == { 1, 2 }

\* no attempt_register is between its find_one and its insert_one
NoCheck == [u |-> NoUser, p |-> ""]

NoChecks == [i \in Instances |-> NoCheck]

\* MoodBoardApp.__init__ on an empty database: every page is constructed and
\* LandingPage is shown
Init ==
    /\ users = <<>> /\ images = <<>> /\ boards = <<>>
    /\ files = DiskFiles
    /\ clock = 0
    /\ current_user = NoUser
    /\ current_image_path = NoPath
    /\ current_original_image = NoImage
    /\ current_work_image = NoImage
    /\ page = "LandingPage"
    /\ var_grayscale = FALSE /\ blur_var = 0
    /\ brightness_var = Neutral /\ contrast_var = Neutral
    /\ gallery = <<>> /\ previews = {}
    /\ board_docs = <<>> /\ sel = 0
    /\ board_items = <<>> /\ canvas = <<>>
    /\ selected_item = 0 /\ drag_offset = <<0, 0>>
    /\ current_board = ""
    /\ button_down = FALSE
    /\ placed_by = <<>> /\ saved_here = FALSE /\ scn = ScnOff
    /\ checked = NoChecks

\* saved_here lasts while the same user keeps the same board open; a handler
\* that runs as a whole leaves no registration half done
KeepSaved ==
    /\ saved_here' = (saved_here /\ current_user' = current_user
                                 /\ current_board' = current_board)
    /\ UNCHANGED checked

\* what every handler but the scenario's own does to the history variables
NoHist == scn' = ScnOff /\ KeepSaved

(* ------------------------- files and listings ------------------------- *)
exists(fs, path) == path \in DOMAIN fs

\* Image.open(path) succeeds
opens(fs, path) == exists(fs, path) /\ fs[path].name # ""

\* Image.convert("RGBA")
convert_rgba(img) == [img EXCEPT !.mode = "RGBA"]

\* GalleryPage.reload: the owner's documents, newest first, whose file opens
reload(user, imgs, fs) ==
    IF user = NoUser THEN <<>>
    ELSE LET docs == SortDesc({ d \in Range(imgs) : d.username = user })
         IN [i \in DOMAIN SelectSeq(docs, LAMBDA d : opens(fs, d.saved_path))
                |-> SelectSeq(docs, LAMBDA d : opens(fs, d.saved_path))[i].saved_path]

\* MoodBoardPage.refresh_board_list: the new _board_docs (kept when nobody is
\* logged in); the listbox is emptied either way, which clears its selection
refresh_board_list(user, bds, old) ==
    IF user = NoUser THEN old
    ELSE SortDesc({ d \in Range(bds) : d.username = user })

\* MoodBoardApp.show_page: raise the page and run its on_show
show_page(name, user) ==
    /\ page' = name
    /\ gallery' = IF name = "GalleryPage" THEN reload(user, images, files) ELSE gallery
    /\ board_docs' = IF name = "MoodBoardPage"
                     THEN refresh_board_list(user, boards, board_docs)
                     ELSE board_docs
    /\ sel' = IF name = "MoodBoardPage" THEN 0 ELSE sel

(* ----------------------------- LoginPage ------------------------------ *)
find_user(us, u) == FirstIndex(us, LAMBDA d : d.username = u)

\* attempt_register without its find_one check
register_msg_nocheck(us, raw, p) ==
    IF strip(raw) = <<>> \/ p = "" THEN "Missing" ELSE "Registered"

\* the message box attempt_register ends with
register_msg(us, raw, p) ==
    LET u == strip(raw)
    IN IF u = <<>> \/ p = "" THEN "Missing"
       ELSE IF find_user(us, u) # 0 THEN "Exists"
       ELSE "Registered"

\* the users collection after attempt_register
register_users(us, raw, p, salt, now) ==
    IF register_msg(us, raw, p) = "Registered"
    THEN Append(us, [username |-> strip(raw), password |-> hash_password(p, salt),
                     created_at |-> now])
    ELSE us

attempt_register(raw, p, salt) ==
    /\ page = "LoginPage"
    /\ register_msg(users, raw, p) = "Registered" => clock < MaxClock
    /\ users' = register_users(users, raw, p, salt, clock + 1)
    /\ clock' = IF register_msg(users, raw, p) = "Registered" THEN clock + 1 ELSE clock
    /\ UNCHANGED <<images, boards, files, ctlVars, page, editVars, galVars, mbVars,
                   button_down>>
    /\ NoHist

\* users_col.insert_one behind a unique index on username
insert_user_unique(us, u, p, salt, now) ==
    IF find_user(us, u) # 0 THEN us
    ELSE Append(us, [username |-> u, password |-> hash_password(p, salt),
                     created_at |-> now])

\* users_col.insert_one({"username": u, "password": hashed, "created_at": now})
insert_user(us, u, p, salt, now) ==
    Append(us, [username |-> u, password |-> hash_password(p, salt), created_at |-> now])

\* attempt_register of app instance i up to and including its find_one: the
\* instance goes on to insert only if it found the username free
register_check(i, raw, p) ==
    /\ page = "LoginPage"
    /\ checked[i] = NoCheck
    /\ checked' = IF register_msg(users, raw, p) = "Registered"
                  THEN [checked EXCEPT ![i] = [u |-> strip(raw), p |-> p]]
                  ELSE checked
    /\ UNCHANGED <<dbVars, ctlVars, page, editVars, galVars, mbVars, button_down,
                   saved_here, scn>>

\* the rest of attempt_register of app instance i: hash_password and insert_one
register_insert(i, salt) ==
    /\ page = "LoginPage"
    /\ checked[i] # NoCheck
    /\ clock < MaxClock
    /\ users' = insert_user(users, checked[i].u, checked[i].p, salt, clock + 1)
    /\ clock' = clock + 1
    /\ checked' = [checked EXCEPT ![i] = NoCheck]
    /\ UNCHANGED <<images, boards, files, ctlVars, page, editVars, galVars, mbVars,
                   button_down, saved_here, scn>>

\* attempt_login that takes any password of an existing user
login_msg_nopw(us, raw, p) ==
    IF strip(raw) = <<>> \/ p = "" THEN "Missing"
    ELSE IF find_user(us, strip(raw)) = 0 THEN "Not found"
    ELSE ""

\* the message box attempt_login ends with; "" when it logs the user in
login_msg(us, raw, p) ==
    LET u == strip(raw)
        i == find_user(us, u)
    IN IF u = <<>> \/ p = "" THEN "Missing"
       ELSE IF i = 0 THEN "Not found"
       ELSE IF check_password(p, us[i].password) THEN ""
       ELSE "Unauthorized"

\* MoodBoardApp.login
login(username) ==
    /\ current_user' = username
    /\ show_page("DashboardPage", username)

attempt_login(raw, p) ==
    /\ page = "LoginPage"
    /\ IF login_msg(users, raw, p) = ""
       THEN login(strip(raw))
       ELSE UNCHANGED <<current_user, page, gallery, board_docs, sel>>
    /\ UNCHANGED <<dbVars, current_image_path, current_original_image,
                   current_work_image, editVars, previews, canvasVars,
                   current_board, button_down>>
    /\ NoHist

(* ---------------------------- navigation ------------------------------ *)
\* LandingPage "Get Started"
get_started ==
    /\ page = "LandingPage"
    /\ show_page("LoginPage", current_user)
    /\ UNCHANGED <<dbVars, ctlVars, editVars, previews, canvasVars, current_board,
                   button_down>>
    /\ NoHist

\* the Dashboard's page buttons
open_page(name) ==
    /\ page = "DashboardPage"
    /\ show_page(name, current_user)
    /\ UNCHANGED <<dbVars, ctlVars, editVars, previews, canvasVars, current_board,
                   button_down>>
    /\ NoHist

\* the "Back" button of the Editor, Gallery, MoodBoard and Profile pages
back ==
    /\ page \in { "EditorPage", "GalleryPage", "MoodBoardPage", "ProfilePage" }
    /\ ~button_down
    /\ show_page("DashboardPage", current_user)
    /\ UNCHANGED <<dbVars, ctlVars, editVars, previews, canvasVars, current_board,
                   button_down>>
    /\ NoHist

\* MoodBoardApp.logout
logout ==
    /\ current_user' = NoUser
    /\ current_image_path' = NoPath
    /\ current_original_image' = NoImage
    /\ current_work_image' = NoImage
    /\ show_page("LandingPage", NoUser)

\* DashboardPage.do_logout
do_logout(confirm) ==
    /\ page = "DashboardPage"
    /\ IF confirm THEN logout
       ELSE UNCHANGED <<ctlVars, page, gallery, board_docs, sel>>
    /\ UNCHANGED <<dbVars, editVars, previews, canvasVars, current_board, button_down>>
    /\ NoHist

(* ----------------------------- EditorPage ----------------------------- *)
\* the filter pipeline of apply_filters: each step that runs is recorded, in
\* order, on the image it produces
pipeline(base, gray, blur, bright, contrast) ==
    [base EXCEPT !.ops =
        base.ops
        \o (IF gray THEN << <<"grayscale", 0>> >> ELSE <<>>)
        \o (IF blur > BlurEps THEN << <<"blur", blur>> >> ELSE <<>>)
        \o (IF Abs(bright - Neutral) > EnhEps THEN << <<"brightness", bright>> >> ELSE <<>>)
        \o (IF Abs(contrast - Neutral) > EnhEps THEN << <<"contrast", contrast>> >> ELSE <<>>)]

\* apply_filters composing onto the previous work image
apply_filters_compose(orig, work, gray, blur, bright, contrast) ==
    IF orig = NoImage THEN work
    ELSE pipeline(work, gray, blur, bright, contrast)

\* apply_filters stacking onto the work image once there is one
apply_filters_stack(orig, work, gray, blur, bright, contrast) ==
    IF orig = NoImage THEN work
    ELSE IF work = NoImage THEN pipeline(orig, gray, blur, bright, contrast)
    ELSE pipeline(work, gray, blur, bright, contrast)

\* EditorPage.apply_filters: the new current_work_image
apply_filters(orig, work, gray, blur, bright, contrast) ==
    IF orig = NoImage THEN work
    ELSE pipeline(orig, gray, blur, bright, contrast)

\* EditorPage.upload_image; path is the file dialog's answer
upload_image(path) ==
    /\ page = "EditorPage"
    /\ IF path = NoPath
       THEN /\ UNCHANGED <<ctlVars, editVars>>
       ELSE IF ~opens(files, path)
       THEN /\ UNCHANGED <<ctlVars, editVars>>
       ELSE /\ current_image_path' = path
            /\ current_original_image' = convert_rgba(files[path])
            /\ current_work_image' = convert_rgba(files[path])
            /\ var_grayscale' = FALSE /\ blur_var' = 0
            /\ brightness_var' = Neutral /\ contrast_var' = Neutral
            /\ UNCHANGED current_user
    /\ UNCHANGED <<dbVars, page, galVars, mbVars, button_down>>
    /\ NoHist

\* the Grayscale checkbutton: toggles the variable, then apply_filters
toggle_grayscale ==
    /\ page = "EditorPage"
    /\ var_grayscale' = ~var_grayscale
    /\ current_work_image' = apply_filters(current_original_image, current_work_image,
                                ~var_grayscale, blur_var, brightness_var, contrast_var)
    /\ UNCHANGED <<dbVars, current_user, current_image_path, current_original_image,
                   page, blur_var, brightness_var, contrast_var, galVars, mbVars,
                   button_down>>
    /\ NoHist

\* the Blur scale: sets the variable, then apply_filters
scale_blur(v) ==
    /\ page = "EditorPage"
    /\ blur_var' = v
    /\ current_work_image' = apply_filters(current_original_image, current_work_image,
                                var_grayscale, v, brightness_var, contrast_var)
    /\ UNCHANGED <<dbVars, current_user, current_image_path, current_original_image,
                   page, var_grayscale, brightness_var, contrast_var, galVars, mbVars,
                   button_down>>
    /\ NoHist

\* the Brightness scale
scale_brightness(v) ==
    /\ page = "EditorPage"
    /\ brightness_var' = v
    /\ current_work_image' = apply_filters(current_original_image, current_work_image,
                                var_grayscale, blur_var, v, contrast_var)
    /\ UNCHANGED <<dbVars, current_user, current_image_path, current_original_image,
                   page, var_grayscale, blur_var, contrast_var, galVars, mbVars,
                   button_down>>
    /\ NoHist

\* the Contrast scale
scale_contrast(v) ==
    /\ page = "EditorPage"
    /\ contrast_var' = v
    /\ current_work_image' = apply_filters(current_original_image, current_work_image,
                                var_grayscale, blur_var, brightness_var, v)
    /\ UNCHANGED <<dbVars, current_user, current_image_path, current_original_image,
                   page, var_grayscale, blur_var, brightness_var, galVars, mbVars,
                   button_down>>
    /\ NoHist

\* EditorPage.reset_edits
reset_edits ==
    /\ page = "EditorPage"
    /\ IF current_original_image = NoImage
       THEN UNCHANGED <<editVars, current_work_image>>
       ELSE /\ var_grayscale' = FALSE /\ blur_var' = 0
            /\ brightness_var' = Neutral /\ contrast_var' = Neutral
            /\ current_work_image' = current_original_image
    /\ UNCHANGED <<dbVars, current_user, current_image_path, current_original_image,
                   page, galVars, mbVars, button_down>>
    /\ NoHist

\* os.path.basename of a path, and the base splitext leaves of it
basename(path) == IF path = NoPath THEN "untitled" ELSE path[3]

\* a save_image_file that leaves the timestamp out of the file name
save_image_file_plain(username, orig_filename, now) == <<username, 0, orig_filename>>

\* save_image_file: the path it writes, uploads/<username>/<timestamp>_<base>.png
save_image_file(username, orig_filename, now) == <<username, now, orig_filename>>

\* the metadata document save_edited inserts
image_doc(username, orig_name, out_path, now) ==
    [username |-> username, orig_filename |-> orig_name, saved_path |-> out_path,
     filters |-> [grayscale |-> var_grayscale, blur |-> blur_var,
                  brightness |-> brightness_var, contrast |-> contrast_var],
     saved_at |-> now]

\* EditorPage.save_edited, while fewer than maxImages records and fewer than
\* maxFiles stored files exist
save_within(maxImages, maxFiles) ==
    /\ page = "EditorPage"
    /\ IF current_work_image = NoImage
       THEN /\ UNCHANGED <<images, files, clock>>
       ELSE IF current_user = NoUser
       THEN /\ UNCHANGED <<images, files, clock>>
       ELSE /\ clock < MaxClock /\ Len(images) < maxImages
            /\ Cardinality(DOMAIN files \ DiskPaths) < maxFiles
            /\ LET now == clock + 1
                   out_path == save_image_file(current_user,
                                               basename(current_image_path), now)
               IN /\ files' = (out_path :> convert_rgba(current_work_image)) @@ files
                  /\ images' = Append(images, image_doc(current_user,
                                        basename(current_image_path), out_path, now))
                  /\ clock' = now
    /\ UNCHANGED <<users, boards, ctlVars, page, editVars, galVars, mbVars, button_down>>
    /\ NoHist

\* EditorPage.save_edited, the "Save Edited" button
save_edited == save_within(MaxImages, MaxFiles)

(* ----------------------------- GalleryPage ---------------------------- *)
\* GalleryPage.preview_image, bound to a click on a thumbnail of the listing
preview_image(path) ==
    /\ page = "GalleryPage"
    /\ path \in Range(gallery)
    /\ IF ~exists(files, path)
       THEN /\ gallery' = reload(current_user, images, files)
            /\ UNCHANGED previews
       ELSE IF ~opens(files, path)
       THEN /\ UNCHANGED <<gallery, previews>>
       ELSE /\ previews' = previews \cup {path}
            /\ UNCHANGED gallery
    /\ UNCHANGED <<dbVars, ctlVars, page, editVars, mbVars, button_down>>
    /\ NoHist

\* the preview window's "Close" button
close_preview(path) ==
    /\ path \in previews
    /\ ~button_down
    /\ previews' = previews \ {path}
    /\ UNCHANGED <<dbVars, ctlVars, page, editVars, gallery, mbVars, button_down>>
    /\ NoHist

\* a delete_one whose filter matches nothing
delete_one_image_keep(imgs, path) == imgs

\* images_col.delete_one({"saved_path": path})
delete_one_image(imgs, path) ==
    LET i == FirstIndex(imgs, LAMBDA d : d.saved_path = path)
    IN IF i = 0 THEN imgs ELSE RemoveAt(imgs, i)

\* os.remove(path) inside try/except: the file is gone when the call succeeds
os_remove(fs, path, succeeds) ==
    IF succeeds /\ exists(fs, path) THEN [q \in DOMAIN fs \ {path} |-> fs[q]] ELSE fs

\* preview_image.do_delete, the preview window's "Delete" button; the window
\* is not modal, so it can be pressed whatever page is shown
do_delete(path, confirm, succeeds) ==
    /\ path \in previews
    /\ ~button_down
    /\ IF ~confirm
       THEN UNCHANGED <<images, files, gallery, previews>>
       ELSE /\ images' = delete_one_image(images, path)
            /\ files' = os_remove(files, path, succeeds)
            /\ previews' = previews \ {path}
            /\ gallery' = reload(current_user, images', files')
    /\ UNCHANGED <<users, boards, clock, ctlVars, page, editVars, mbVars, button_down>>
    /\ NoHist

(* ---------------------------- MoodBoardPage --------------------------- *)
\* round_aspect of Image.thumbnail, for the width: floor or ceiling of
\* y * W / H, whichever keeps the aspect ratio closer (floor on a tie), at least 1
round_aspect_x(W, H, y) ==
    LET fl == (y * W) \div H
        ce == IF (y * W) % H = 0 THEN fl ELSE fl + 1
        pick == IF Abs(W * y - fl * H) <= Abs(W * y - ce * H) THEN fl ELSE ce
    IN IF pick < 1 THEN 1 ELSE pick

\* round_aspect for the height: floor or ceiling of x * H / W
round_aspect_y(W, H, x) ==
    LET fl == (x * H) \div W
        ce == IF (x * H) % W = 0 THEN fl ELSE fl + 1
        pick == IF fl = 0 \/ Abs(W * fl - x * H) * ce <= Abs(W * ce - x * H) * fl
                THEN fl ELSE ce
    IN IF pick < 1 THEN 1 ELSE pick

\* Image.thumbnail((bx, by)) on a W x H image: the size of the result.  Never
\* upscales; otherwise the box side that binds is kept and the other is rounded
thumbnail(W, H, bx, by) ==
    IF bx >= W /\ by >= H THEN <<W, H>>
    ELSE IF bx * H >= W * by THEN <<round_aspect_x(W, H, by), by>>
    ELSE <<bx, round_aspect_y(W, H, bx)>>

\* canvas.create_image: the id of the new item.  tk hands out ids that were
\* never used; they are opaque handles, so the least id above those on the
\* canvas stands for it
create_image(cv) ==
    IF cv = <<>> THEN 1
    ELSE 1 + (CHOOSE n \in { cv[i].id : i \in DOMAIN cv } :
                 \A i \in DOMAIN cv : cv[i].id <= n)

\* canvas.tag_raise(id): the item moves to the top of the display list
tag_raise(cv, id) ==
    SelectSeq(cv, LAMBDA c : c.id # id) \o SelectSeq(cv, LAMBDA c : c.id = id)

\* canvas.coords(id)
coords(cv, id) ==
    LET c == CHOOSE c \in Range(cv) : c.id = id IN <<c.x, c.y>>

\* a coords call with its two coordinates exchanged
move_to_swapped(cv, id, x, y) ==
    [i \in DOMAIN cv |-> IF cv[i].id = id THEN [cv[i] EXCEPT !.x = y, !.y = x] ELSE cv[i]]

\* canvas.coords(id, x, y)
move_to(cv, id, x, y) ==
    [i \in DOMAIN cv |-> IF cv[i].id = id THEN [cv[i] EXCEPT !.x = x, !.y = y] ELSE cv[i]]

\* canvas.find_overlapping(x, y, x, y): ids of the items whose box holds the
\* point, bottom to top
find_overlapping(cv, pt) ==
    LET hit == SelectSeq(cv, LAMBDA c : /\ c.x <= pt[1] /\ pt[1] <= c.x + c.w
                                        /\ c.y <= pt[2] /\ pt[2] <= c.y + c.h)
    IN [i \in DOMAIN hit |-> hit[i].id]

\* boards_col.insert_one of new_board; the ObjectId is unique, the stamp of
\* its creation stands for it
board_doc(username, name, now) ==
    [id |-> now, username |-> username, board_name |-> name, layout |-> <<>>,
     saved_at |-> now]

\* the boards collection after MoodBoardPage.new_board got `name` from its prompt
new_board_boards(bds, username, name, now) ==
    IF username = NoUser \/ name = "" THEN bds
    ELSE Append(bds, board_doc(username, name, now))

\* the message box new_board ends with
new_board_msg(username, name) ==
    IF username = NoUser THEN "Error" ELSE IF name = "" THEN "" ELSE "Created"

\* MoodBoardPage.clear_canvas
clear_canvas ==
    /\ canvas' = <<>>
    /\ board_items' = <<>>
    /\ placed_by' = <<>>
    /\ selected_item' = 0

\* the "Clear Canvas" button
clear_canvas_button ==
    /\ page = "MoodBoardPage" /\ ~button_down
    /\ clear_canvas
    /\ UNCHANGED <<dbVars, ctlVars, page, editVars, galVars, listVars, drag_offset,
                   current_board, button_down>>
    /\ NoHist

\* MoodBoardPage.new_board, the "New Board" button
new_board(name) ==
    /\ page = "MoodBoardPage" /\ ~button_down
    /\ new_board_msg(current_user, name) = "Created" => clock < MaxClock
    /\ boards' = new_board_boards(boards, current_user, name, clock + 1)
    /\ clock' = IF new_board_msg(current_user, name) = "Created" THEN clock + 1 ELSE clock
    /\ IF new_board_msg(current_user, name) = "Created"
       THEN /\ board_docs' = refresh_board_list(current_user, boards', board_docs)
            /\ sel' = 0
       ELSE UNCHANGED listVars
    /\ scn' = IF /\ new_board_msg(current_user, name) = "Created"
                 /\ board_items = <<>> /\ current_board = ""
              THEN [step |-> 1, name |-> name, path |-> NoPath]
              ELSE ScnOff
    /\ UNCHANGED <<users, images, files, ctlVars, page, editVars, galVars, canvasVars,
                   current_board, button_down>>
    /\ KeepSaved

\* boards_col.delete_one({"_id": id})
delete_one_board(bds, id) ==
    LET i == FirstIndex(bds, LAMBDA d : d.id = id)
    IN IF i = 0 THEN bds ELSE RemoveAt(bds, i)

\* history: the last handler deleted the record of the board open on the canvas
DeletedOpen == 8

\* MoodBoardPage.delete_selected_board, the "Delete Board" button
delete_selected_board(confirm) ==
    /\ page = "MoodBoardPage" /\ ~button_down
    /\ IF sel = 0
       THEN /\ UNCHANGED <<boards, listVars, canvasVars>>
       ELSE IF ~confirm
       THEN /\ UNCHANGED <<boards, listVars, canvasVars>>
       ELSE /\ boards' = delete_one_board(boards, board_docs[sel].id)
            /\ board_docs' = refresh_board_list(current_user, boards', board_docs)
            /\ sel' = 0
            /\ IF current_board = board_docs[sel].board_name
               THEN clear_canvas /\ UNCHANGED drag_offset
               ELSE UNCHANGED canvasVars
    /\ scn' = IF /\ sel # 0 /\ confirm
                 /\ current_board = board_docs[sel].board_name
                 /\ boards' # boards
              THEN [step |-> DeletedOpen, name |-> current_board, path |-> NoPath]
              ELSE ScnOff
    /\ UNCHANGED <<users, images, files, clock, ctlVars, page, editVars, galVars,
                   current_board, button_down>>
    /\ KeepSaved

\* a load_board that gives up at the first entry whose file is gone
RECURSIVE load_items_halt(_, _, _)
load_items_halt(layout, fs, cv) ==
    IF layout = <<>> THEN <<>>
    ELSE LET item == Head(layout)
         IN IF item.path = NoPath \/ ~opens(fs, item.path)
            THEN <<>>
            ELSE LET size == thumbnail(fs[item.path].w, fs[item.path].h, item.w, item.h)
                     meta == [id |-> create_image(cv), path |-> item.path,
                              x |-> item.x, y |-> item.y,
                              w |-> size[1], h |-> size[2]]
                     drawn == [id |-> meta.id, x |-> item.x, y |-> item.y,
                               w |-> size[1], h |-> size[2]]
                 IN <<meta>> \o load_items_halt(Tail(layout), fs, Append(cv, drawn))

\* the metas load_board builds from a stored layout: the entries whose file
\* opens, in layout order, each thumbnailed again into its stored w x h box
RECURSIVE load_items(_, _, _)
load_items(layout, fs, cv) ==
    IF layout = <<>> THEN <<>>
    ELSE LET item == Head(layout)
         IN IF item.path = NoPath \/ ~opens(fs, item.path)
            THEN load_items(Tail(layout), fs, cv)
            ELSE LET size == thumbnail(fs[item.path].w, fs[item.path].h, item.w, item.h)
                     meta == [id |-> create_image(cv), path |-> item.path,
                              x |-> item.x, y |-> item.y,
                              w |-> size[1], h |-> size[2]]
                     drawn == [id |-> meta.id, x |-> item.x, y |-> item.y,
                               w |-> size[1], h |-> size[2]]
                 IN <<meta>> \o load_items(Tail(layout), fs, Append(cv, drawn))

\* the canvas items that go with a list of metas built by load_board
drawn_items(metas) ==
    [i \in DOMAIN metas |-> [id |-> metas[i].id, x |-> metas[i].x, y |-> metas[i].y,
                             w |-> metas[i].w, h |-> metas[i].h]]

\* MoodBoardPage.load_board(board_id)
load_board(board_id) ==
    LET i == FirstIndex(boards, LAMBDA d : d.id = board_id)
    IN IF i = 0
       THEN /\ UNCHANGED <<canvasVars, current_board>>
       ELSE /\ current_board' = boards[i].board_name
            /\ board_items' = load_items(boards[i].layout, files, <<>>)
            /\ canvas' = drawn_items(board_items')
            /\ placed_by' = [k \in DOMAIN board_items' |-> current_user]
            /\ selected_item' = 0
            /\ UNCHANGED drag_offset

\* what loading a board does to the scenario: its last step is loading the
\* board the scenario created
scn_load(name) ==
    IF scn.step = 6 /\ name = scn.name THEN [scn EXCEPT !.step = 7] ELSE ScnOff

\* MoodBoardPage.on_board_select, bound to a selection in the boards listbox
on_board_select(idx) ==
    /\ page = "MoodBoardPage" /\ ~button_down
    /\ idx \in DOMAIN board_docs
    /\ sel' = idx
    /\ load_board(board_docs[idx].id)
    /\ scn' = scn_load(board_docs[idx].board_name)
    /\ UNCHANGED <<dbVars, ctlVars, page, editVars, galVars, board_docs, button_down>>
    /\ KeepSaved

\* MoodBoardPage.load_board_dialog, the "Load Board" button; pick is the row
\* chosen in BoardSelectionDialog, 0 for Cancel
load_board_dialog(pick) ==
    /\ page = "MoodBoardPage" /\ ~button_down
    /\ LET docs == SortDesc({ d \in Range(boards) : d.username = current_user })
       IN /\ pick \in 0 .. Len(docs)
          /\ IF current_user = NoUser
             THEN /\ pick = 0
                  /\ scn' = ScnOff
                  /\ UNCHANGED <<canvasVars, current_board>>
             ELSE IF docs = <<>>
             THEN /\ scn' = ScnOff
                  /\ UNCHANGED <<canvasVars, current_board>>
             ELSE IF pick = 0
             THEN /\ scn' = ScnOff
                  /\ UNCHANGED <<canvasVars, current_board>>
             ELSE /\ load_board(docs[pick].id)
                  /\ scn' = scn_load(docs[pick].board_name)
    /\ UNCHANGED <<dbVars, ctlVars, page, editVars, galVars, listVars, button_down>>
    /\ KeepSaved

\* the meta add_image_to_board appends for the image at `path`
new_meta(path, fs, items, cv) ==
    LET size == thumbnail(fs[path].w, fs[path].h, ThumbBox, ThumbBox)
    IN [id |-> create_image(cv), path |-> path,
        x |-> AddBase + Len(items) * AddStep, y |-> AddBase + Len(items) * AddStep,
        w |-> size[1], h |-> size[2]]

\* MoodBoardPage.add_image_to_board, the "Add Image" button.  Its inputs are
\* the answers to its dialogs, in the order they are shown:
\*   create   "No board selected ... create a new board now?"
\*   name1    new_board's "Enter board name:"
\*   saved    "Load from your saved uploads?"
\*   pick     the row chosen in SelectionDialog, 0 for Cancel
\*   disk     the file dialog's answer
\*   name2    "Enter board name to save to:"
\* A dialog that is not shown has its neutral answer.
add_image_to_board(create, name1, saved, pick, disk, name2) ==
    /\ page = "MoodBoardPage" /\ ~button_down
    /\ current_board # "" => ~create
    /\ ~create => name1 = ""
    /\ saved => disk = NoPath
    /\ ~saved => pick = 0
    /\ LET asked == current_board = ""
           made == asked /\ create /\ new_board_msg(current_user, name1) = "Created"
           boards1 == IF made
                      THEN new_board_boards(boards, current_user, name1, clock + 1)
                      ELSE boards
           docs1 == IF asked /\ create
                    THEN refresh_board_list(current_user, boards1, board_docs)
                    ELSE board_docs
           board1 == IF asked /\ create /\ docs1 # <<>>
                     THEN docs1[1].board_name
                     ELSE current_board
           mine == SortDesc({ d \in Range(images) : d.username = current_user })
           path == IF saved
                   THEN (IF pick \in DOMAIN mine THEN mine[pick].saved_path ELSE NoPath)
                   ELSE disk
           meta == new_meta(path, files, board_items, canvas)
       IN /\ made => clock < MaxClock
          /\ pick \in 0 .. Len(mine)
          /\ boards' = boards1
          /\ clock' = IF made THEN clock + 1 ELSE clock
          /\ board_docs' = docs1
          /\ sel' = IF asked /\ create THEN 0 ELSE sel
          /\ IF asked /\ ~create
             THEN \* "No" to creating a board: nothing is added
                  /\ saved /\ pick = 0 /\ name2 = ""
                  /\ scn' = ScnOff
                  /\ UNCHANGED <<canvasVars, current_board>>
             ELSE IF saved /\ mine = <<>>
             THEN /\ name2 = ""
                  /\ current_board' = board1
                  /\ scn' = ScnOff
                  /\ UNCHANGED canvasVars
             ELSE IF path = NoPath
             THEN \* the selection or the file dialog was cancelled
                  /\ name2 = ""
                  /\ current_board' = board1
                  /\ scn' = ScnOff
                  /\ UNCHANGED canvasVars
             ELSE IF ~opens(files, path)
             THEN /\ name2 = ""
                  /\ current_board' = board1
                  /\ scn' = ScnOff
                  /\ UNCHANGED canvasVars
             ELSE /\ Len(board_items) < MaxItems
                  /\ board1 # "" => name2 = ""
                  /\ board_items' = Append(board_items, meta)
                  /\ placed_by' = Append(placed_by, current_user)
                  /\ canvas' = Append(canvas, [id |-> meta.id, x |-> meta.x, y |-> meta.y,
                                               w |-> meta.w, h |-> meta.h])
                  /\ current_board' = IF board1 = "" THEN name2 ELSE board1
                  /\ scn' = IF scn.step = 1 /\ saved /\ Len(board_items) = 0
                            THEN [scn EXCEPT !.step = 2, !.path = path]
                            ELSE ScnOff
                  /\ UNCHANGED <<selected_item, drag_offset>>
    /\ UNCHANGED <<users, images, files, ctlVars, page, editVars, galVars, button_down>>
    /\ KeepSaved

\* the meta whose canvas id is `id`
meta_of(items, id) == CHOOSE m \in Range(items) : m.id = id

\* MoodBoardPage.on_canvas_click, <Button-1> on the canvas
on_canvas_click(pt) ==
    /\ page = "MoodBoardPage" /\ ~button_down
    /\ button_down' = TRUE
    /\ LET items == find_overlapping(canvas, pt)
       IN IF items = <<>>
          THEN /\ selected_item' = 0
               /\ scn' = ScnOff
               /\ UNCHANGED <<drag_offset, canvas>>
          ELSE LET top == items[Len(items)]
               IN IF \E m \in Range(board_items) : m.id = top
                  THEN /\ selected_item' = top
                       /\ drag_offset' = <<pt[1] - coords(canvas, top)[1],
                                           pt[2] - coords(canvas, top)[2]>>
                       /\ canvas' = tag_raise(canvas, top)
                       /\ scn' = IF scn.step = 2 THEN [scn EXCEPT !.step = 3] ELSE ScnOff
                  ELSE /\ scn' = ScnOff
                       /\ UNCHANGED <<selected_item, drag_offset, canvas>>
    /\ UNCHANGED <<dbVars, ctlVars, page, editVars, galVars, listVars, board_items,
                   placed_by, current_board>>
    /\ KeepSaved

\* where the scenario drags its image to
ScenarioSpot == <<120, 80>>

\* MoodBoardPage.on_canvas_drag, <B1-Motion>
on_canvas_drag(pt) ==
    /\ page = "MoodBoardPage" /\ button_down
    /\ IF selected_item = 0
       THEN /\ scn' = ScnOff
            /\ UNCHANGED <<canvas, board_items>>
       ELSE LET dx == pt[1] - drag_offset[1]
                dy == pt[2] - drag_offset[2]
            IN /\ canvas' = move_to(canvas, selected_item, dx, dy)
               /\ board_items' = [i \in DOMAIN board_items |->
                                    IF board_items[i].id = selected_item
                                    THEN [board_items[i] EXCEPT !.x = dx, !.y = dy]
                                    ELSE board_items[i]]
               /\ scn' = IF scn.step \in {3, 4} /\ <<dx, dy>> = ScenarioSpot
                         THEN [scn EXCEPT !.step = 4]
                         ELSE ScnOff
    /\ UNCHANGED <<dbVars, ctlVars, page, editVars, galVars, listVars, selected_item,
                   drag_offset, placed_by, current_board, button_down>>
    /\ KeepSaved

\* a release handler that forgets to clear the selection
on_canvas_release_keep ==
    /\ page = "MoodBoardPage" /\ button_down
    /\ button_down' = FALSE
    /\ scn' = ScnOff
    /\ UNCHANGED <<dbVars, ctlVars, page, editVars, galVars, listVars, board_items,
                   canvas, selected_item, drag_offset, placed_by, current_board>>
    /\ KeepSaved

\* MoodBoardPage.on_canvas_release, <ButtonRelease-1>
on_canvas_release ==
    /\ page = "MoodBoardPage" /\ button_down
    /\ button_down' = FALSE
    /\ selected_item' = 0
    /\ scn' = IF scn.step = 4 THEN [scn EXCEPT !.step = 5] ELSE ScnOff
    /\ UNCHANGED <<dbVars, ctlVars, page, editVars, galVars, listVars, board_items,
                   canvas, drag_offset, placed_by, current_board>>
    /\ KeepSaved

\* float(): canvas coordinates are floats already and BSON keeps doubles
\* exactly, so the number is unchanged
float(x) == x

\* the layout list save_board builds from board_items and the canvas
serialize(items, cv) ==
    [i \in DOMAIN items |->
        [path |-> items[i].path,
         x |-> float(coords(cv, items[i].id)[1]),
         y |-> float(coords(cv, items[i].id)[2]),
         w |-> items[i].w, h |-> items[i].h]]

\* boards_col.update_one({username, board_name}, {"$set": ...}, upsert=True):
\* the first matching document is updated; with no match one is inserted
upsert_board(bds, username, name, layout, now) ==
    LET i == FirstIndex(bds, LAMBDA d : d.username = username /\ d.board_name = name)
    IN IF i = 0
       THEN Append(bds, [id |-> now, username |-> username, board_name |-> name,
                         layout |-> layout, saved_at |-> now])
       ELSE [bds EXCEPT ![i] = [@ EXCEPT !.layout = layout, !.saved_at = now]]

\* MoodBoardPage.save_board, the "Save Board" button
save_board ==
    /\ page = "MoodBoardPage" /\ ~button_down
    /\ IF current_board = "" \/ current_user = NoUser
       THEN /\ scn' = ScnOff
            /\ UNCHANGED <<boards, clock, listVars, saved_here>>
       ELSE /\ clock < MaxClock
            /\ boards' = upsert_board(boards, current_user, current_board,
                                      serialize(board_items, canvas), clock + 1)
            /\ clock' = clock + 1
            /\ board_docs' = refresh_board_list(current_user, boards', board_docs)
            /\ sel' = 0
            /\ scn' = IF scn.step = 5 THEN [scn EXCEPT !.step = 6] ELSE ScnOff
            /\ saved_here' = TRUE
    /\ UNCHANGED <<users, images, files, ctlVars, page, editVars, galVars, canvasVars,
                   current_board, button_down, checked>>

(* --------------------------- specification ---------------------------- *)
\* LoginPage's two buttons
LoginStep ==
    \/ \E raw \in UsernameInputs, p \in PasswordInputs, salt \in Salts :
          attempt_register(raw, p, salt)
    \/ \E raw \in UsernameInputs, p \in PasswordInputs : attempt_login(raw, p)

\* the pages behind the Dashboard's buttons
Pages == { "EditorPage", "GalleryPage", "MoodBoardPage", "ProfilePage" }

\* moving between the pages, and logging out
SessionStep(pages) ==
    \/ get_started
    \/ \E name \in pages : open_page(name)
    \/ back
    \/ \E confirm \in BOOLEAN : do_logout(confirm)

\* EditorPage's buttons and controls
EditorStep ==
    \/ \E path \in UploadChoices : upload_image(path)
    \/ toggle_grayscale
    \/ \E v \in BlurInputs : scale_blur(v)
    \/ \E v \in EnhInputs : scale_brightness(v)
    \/ \E v \in EnhInputs : scale_contrast(v)
    \/ reset_edits
    \/ save_edited

\* GalleryPage's thumbnails and the preview windows' buttons
GalleryStep ==
    \/ \E path \in Range(gallery) : preview_image(path)
    \/ \E path \in previews : close_preview(path)
    \/ \E path \in previews, confirm \in BOOLEAN, succeeds \in BOOLEAN :
          do_delete(path, confirm, succeeds)

\* MoodBoardPage's buttons, listbox and canvas
BoardStep ==
    \/ \E name \in NameInputs : new_board(name)
    \/ \E confirm \in BOOLEAN : delete_selected_board(confirm)
    \/ \E idx \in DOMAIN board_docs : on_board_select(idx)
    \/ \E pick \in 0 .. Len(boards) : load_board_dialog(pick)
    \/ \E create \in BOOLEAN, saved \in BOOLEAN :
       \E name1 \in IF create THEN NameInputs ELSE {""},
          pick \in IF saved THEN 0 .. Len(images) ELSE {0},
          disk \in IF saved THEN {NoPath} ELSE AddChoices,
          name2 \in NameInputs :
          add_image_to_board(create, name1, saved, pick, disk, name2)
    \/ \E pt \in ClickPoints : on_canvas_click(pt)
    \/ \E pt \in DragPoints : on_canvas_drag(pt)
    \/ on_canvas_release
    \/ save_board
    \/ clear_canvas_button

\* every handler of the application
Next == LoginStep \/ SessionStep(Pages) \/ EditorStep \/ GalleryStep \/ BoardStep

\* the whole application on an empty database
Spec == Init /\ [][Next]_vars

\* accounts: registration, login, logout and navigation on an empty database
LoginNext == LoginStep \/ SessionStep(Pages)

LoginSpec == Init /\ [][LoginNext]_vars

\* the database and upload directory an earlier run left: "a" and "b" are
\* registered, and (for the boards) "a" has saved the tall photo unedited
UserA == <<"a">>

UserB == <<"b">>

SavedA == <<UserA, 0, "tall">>

RegisteredUsers ==
    << [username |-> UserA, password |-> hash_password("p", 1), created_at |-> 0],
       [username |-> UserB, password |-> hash_password("q", 2), created_at |-> 0] >>

InitRegistered ==
    /\ users = RegisteredUsers /\ images = <<>> /\ boards = <<>>
    /\ files = DiskFiles
    /\ clock = 0
    /\ current_user = NoUser
    /\ current_image_path = NoPath
    /\ current_original_image = NoImage
    /\ current_work_image = NoImage
    /\ page = "LandingPage"
    /\ var_grayscale = FALSE /\ blur_var = 0
    /\ brightness_var = Neutral /\ contrast_var = Neutral
    /\ gallery = <<>> /\ previews = {}
    /\ board_docs = <<>> /\ sel = 0
    /\ board_items = <<>> /\ canvas = <<>>
    /\ selected_item = 0 /\ drag_offset = <<0, 0>>
    /\ current_board = ""
    /\ button_down = FALSE
    /\ placed_by = <<>> /\ saved_here = FALSE /\ scn = ScnOff
    /\ checked = NoChecks

\* the editor and the gallery, for registered users
EditorNext ==
    \/ \E raw \in { UserA, UserB }, p \in { "p", "q" } : attempt_login(raw, p)
    \/ SessionStep({ "EditorPage", "GalleryPage" }) \/ EditorStep \/ GalleryStep

EditorSpec == InitRegistered /\ [][EditorNext]_vars

InitSaved ==
    /\ users = RegisteredUsers
    /\ images = << [username |-> UserA, orig_filename |-> "tall", saved_path |-> SavedA,
                    filters |-> [grayscale |-> FALSE, blur |-> 0,
                                 brightness |-> Neutral, contrast |-> Neutral],
                    saved_at |-> 0] >>
    /\ boards = <<>>
    /\ files = (SavedA :> convert_rgba(DiskFiles[DiskTall])) @@ DiskFiles
    /\ clock = 0
    /\ current_user = NoUser
    /\ current_image_path = NoPath
    /\ current_original_image = NoImage
    /\ current_work_image = NoImage
    /\ page = "LandingPage"
    /\ var_grayscale = FALSE /\ blur_var = 0
    /\ brightness_var = Neutral /\ contrast_var = Neutral
    /\ gallery = <<>> /\ previews = {}
    /\ board_docs = <<>> /\ sel = 0
    /\ board_items = <<>> /\ canvas = <<>>
    /\ selected_item = 0 /\ drag_offset = <<0, 0>>
    /\ current_board = ""
    /\ button_down = FALSE
    /\ placed_by = <<>> /\ saved_here = FALSE /\ scn = ScnOff
    /\ checked = NoChecks

\* the boards, for registered users
BoardNext ==
    \/ \E raw \in { UserA, UserB }, p \in { "p", "q" } : attempt_login(raw, p)
    \/ SessionStep({ "MoodBoardPage" }) \/ BoardStep

BoardSpec == InitSaved /\ [][BoardNext]_vars

\* what a longer earlier run left: "a" has saved the tall photo and the wide
\* photo, and has saved board "N" with the tall photo placed twice and the
\* wide photo between them
SavedP == <<UserA, 1, "photo">>

SavedLayout ==
    LET tall == thumbnail(DiskFiles[DiskTall].w, DiskFiles[DiskTall].h, ThumbBox, ThumbBox)
        wide == thumbnail(DiskFiles[DiskPhoto].w, DiskFiles[DiskPhoto].h, ThumbBox, ThumbBox)
    IN << [path |-> SavedA, x |-> 40, y |-> 40, w |-> tall[1], h |-> tall[2]],
          [path |-> SavedP, x |-> 50, y |-> 50, w |-> wide[1], h |-> wide[2]],
          [path |-> SavedA, x |-> 120, y |-> 80, w |-> tall[1], h |-> tall[2]] >>

InitLayout ==
    /\ users = RegisteredUsers
    /\ images = << [username |-> UserA, orig_filename |-> "tall", saved_path |-> SavedA,
                    filters |-> [grayscale |-> FALSE, blur |-> 0,
                                 brightness |-> Neutral, contrast |-> Neutral],
                    saved_at |-> 0],
                   [username |-> UserA, orig_filename |-> "photo", saved_path |-> SavedP,
                    filters |-> [grayscale |-> FALSE, blur |-> 0,
                                 brightness |-> Neutral, contrast |-> Neutral],
                    saved_at |-> 1] >>
    /\ boards = << [id |-> 2, username |-> UserA, board_name |-> "N",
                    layout |-> SavedLayout, saved_at |-> 2] >>
    /\ files = (SavedA :> convert_rgba(DiskFiles[DiskTall]))
                 @@ (SavedP :> convert_rgba(DiskFiles[DiskPhoto])) @@ DiskFiles
    /\ clock = 2
    /\ current_user = NoUser
    /\ current_image_path = NoPath
    /\ current_original_image = NoImage
    /\ current_work_image = NoImage
    /\ page = "LandingPage"
    /\ var_grayscale = FALSE /\ blur_var = 0
    /\ brightness_var = Neutral /\ contrast_var = Neutral
    /\ gallery = <<>> /\ previews = {}
    /\ board_docs = <<>> /\ sel = 0
    /\ board_items = <<>> /\ canvas = <<>>
    /\ selected_item = 0 /\ drag_offset = <<0, 0>>
    /\ current_board = ""
    /\ button_down = FALSE
    /\ placed_by = <<>> /\ saved_here = FALSE /\ scn = ScnOff
    /\ checked = NoChecks

\* deleting saved images in the gallery, loading boards that place them and
\* dragging what was loaded
LayoutNext ==
    \/ \E raw \in { UserA, UserB }, p \in { "p", "q" } : attempt_login(raw, p)
    \/ SessionStep({ "GalleryPage", "MoodBoardPage" })
    \/ GalleryStep
    \/ \E idx \in DOMAIN board_docs : on_board_select(idx)
    \/ \E pick \in 0 .. Len(boards) : load_board_dialog(pick)
    \/ \E pt \in ClickPoints : on_canvas_click(pt)
    \/ \E pt \in DragPoints : on_canvas_drag(pt)
    \/ on_canvas_release
    \/ clear_canvas_button

LayoutSpec == InitLayout /\ [][LayoutNext]_vars

\* one user saving again and again, and deleting in the gallery
SaveNext ==
    \/ \E p \in { "p", "q" } : attempt_login(UserA, p)
    \/ SessionStep({ "EditorPage", "GalleryPage" })
    \/ \E path \in UploadChoices : upload_image(path)
    \/ toggle_grayscale
    \/ save_within(MaxSaves, MaxSaves)
    \/ GalleryStep

SaveSpec == InitRegistered /\ [][SaveNext]_vars

\* two app instances, each showing its LoginPage, registering on one empty
\* database; the database serves one operation at a time
InitRace ==
    /\ users = <<>> /\ images = <<>> /\ boards = <<>>
    /\ files = DiskFiles
    /\ clock = 0
    /\ current_user = NoUser
    /\ current_image_path = NoPath
    /\ current_original_image = NoImage
    /\ current_work_image = NoImage
    /\ page = "LoginPage"
    /\ var_grayscale = FALSE /\ blur_var = 0
    /\ brightness_var = Neutral /\ contrast_var = Neutral
    /\ gallery = <<>> /\ previews = {}
    /\ board_docs = <<>> /\ sel = 0
    /\ board_items = <<>> /\ canvas = <<>>
    /\ selected_item = 0 /\ drag_offset = <<0, 0>>
    /\ current_board = ""
    /\ button_down = FALSE
    /\ placed_by = <<>> /\ saved_here = FALSE /\ scn = ScnOff
    /\ checked = NoChecks

RaceNext ==
    \/ \E i \in Instances, raw \in UsernameInputs, p \in PasswordInputs :
          register_check(i, raw, p)
    \/ \E i \in Instances, salt \in Salts : register_insert(i, salt)

RaceSpec == InitRace /\ [][RaceNext]_vars

(* ------------------------------ claims -------------------------------- *)
\* C1: once a record for a username exists, attempt_register with that
\* (stripped) username inserts nothing and leaves the collection, and so the
\* first record's hash, as it was; with a password given the answer is the
\* "Username already exists" error; the collection never holds two records
\* for one username.
C1_DuplicateRegistrationRejected ==
    /\ \A i, j \in DOMAIN users : users[i].username = users[j].username => i = j
    /\ \A raw \in UsernameInputs, p \in PasswordInputs, salt \in Salts :
          find_user(users, strip(raw)) # 0 =>
             /\ register_users(users, raw, p, salt, clock + 1) = users
             /\ p # "" => register_msg(users, raw, p) = "Exists"

\* C1 witness: both usernames are registered and the Register button is in reach
C1_Witness ==
    /\ page = "LoginPage"
    /\ Len(users) = 2
    /\ find_user(users, strip(<<"a", " ">>)) # 0

\* C2: attempt_login logs in exactly when a record for the username exists and
\* check_password accepts the password against its stored hash; whoever is
\* logged in has a record.
C2_LoginIffVerified ==
    /\ \A raw \in UsernameInputs, p \in PasswordInputs :
          (login_msg(users, raw, p) = "")
             <=> (\E i \in DOMAIN users : /\ users[i].username = strip(raw)
                                          /\ check_password(p, users[i].password))
    /\ current_user # NoUser => find_user(users, current_user) # 0

\* C2 witness: a login has succeeded while another account exists
C2_Witness ==
    /\ current_user = <<"a">>
    /\ page = "DashboardPage"
    /\ Len(users) = 2

\* the users collection without the records of username u
without_user(us, u) == SelectSeq(us, LAMBDA d : d.username # u)

\* C3: a failed login shows the same error whether or not the username has a
\* record: taking the user's record away does not change the error shown.
C3_UniformLoginFailure ==
    \A raw \in UsernameInputs, p \in PasswordInputs :
       LET there == login_msg(users, raw, p)
           gone == login_msg(without_user(users, strip(raw)), raw, p)
       IN (there # "" /\ gone # "") => there = gone

\* the indices of the board records of (owner, name)
records_of(bds, owner, name) ==
    { i \in DOMAIN bds : bds[i].username = owner /\ bds[i].board_name = name }

\* C4: when save_board writes a pair (owner, current_board) it has written
\* before, the collection then holds exactly one record for the pair, with the
\* layout and the stamp of this save.
C4_SecondSaveLeavesOneRecord ==
    [][(save_board /\ saved_here /\ clock' # clock) =>
          LET recs == records_of(boards', current_user, current_board)
          IN /\ Cardinality(recs) = 1
             /\ \A i \in recs : /\ boards'[i].layout = serialize(board_items, canvas)
                                /\ boards'[i].saved_at = clock']_vars

\* C5: when two records of one (owner, name) pair coexist, the next
\* save_board of the pair leaves exactly one.
C5_SaveCollapsesDuplicates ==
    [][(/\ save_board /\ clock' # clock
        /\ Cardinality(records_of(boards, current_user, current_board)) >= 2) =>
          Cardinality(records_of(boards', current_user, current_board)) = 1]_vars

\* the PlacedImage fields of a list of metas
placed(items) ==
    [i \in DOMAIN items |-> [path |-> items[i].path, x |-> items[i].x, y |-> items[i].y,
                             w |-> items[i].w, h |-> items[i].h]]

\* C6: with every placed image's file in place, selecting in the boards list
\* the board whose record holds the layout save_board wrote from this canvas
\* rebuilds board_items with the same entries in the same order, each with
\* the same path, x, y, w and h.
C6_LayoutRoundTrip ==
    [][\A idx \in DOMAIN board_docs, i \in DOMAIN boards :
          (/\ on_board_select(idx)
           /\ boards[i].id = board_docs[idx].id
           /\ boards[i].layout = serialize(board_items, canvas)
           /\ \A k \in DOMAIN board_items : opens(files, board_items[k].path))
          => placed(board_items') = placed(board_items)]_vars

\* C7: a confirmed delete of a saved image leaves no record of its path, and
\* no owner's gallery listing shows it, whether or not os.remove succeeded.
C7_DeleteRemovesRecord ==
    [][\A path \in previews, succeeds \in BOOLEAN :
          do_delete(path, TRUE, succeeds) =>
             /\ \A i \in DOMAIN images' : images'[i].saved_path # path
             /\ path \notin Range(gallery')
             /\ \A u \in { UserA, UserB } :
                   path \notin Range(reload(u, images', files'))]_vars

\* C7 witness: a stored file whose record is gone (the delete was confirmed and
\* os.remove failed), with the owner's gallery shown
C7_Witness ==
    /\ page = "GalleryPage"
    /\ \E path \in DOMAIN files \ DiskPaths :
          /\ \A i \in DOMAIN images : images[i].saved_path # path
          /\ current_user = path[1]
          /\ path \notin Range(gallery)

\* C8: New Board N, Add Image of a saved image, drag to (120, 80), Save Board,
\* load N: the canvas holds exactly that one image there, and every record of
\* N holds exactly that one layout entry.
C8_BoardScenario ==
    scn.step = 7 =>
       /\ placed(board_items)
             = << [path |-> scn.path, x |-> ScenarioSpot[1], y |-> ScenarioSpot[2],
                   w |-> board_items[1].w, h |-> board_items[1].h] >>
       /\ \A i \in records_of(boards, current_user, scn.name) :
             /\ Len(boards[i].layout) = 1
             /\ boards[i].layout[1].path = scn.path
             /\ boards[i].layout[1].x = ScenarioSpot[1]
             /\ boards[i].layout[1].y = ScenarioSpot[2]

\* C9: what save_board writes under the logged-in user was placed or loaded
\* while that user was logged in.
C9_OwnerScoping ==
    [][(save_board /\ clock' # clock) =>
          \A i \in DOMAIN placed_by : placed_by[i] = current_user]_vars

\* the upload a saved-image record was made from
original_of(doc) == convert_rgba(DiskFiles[<<DiskDir, 0, doc.orig_filename>>])

\* C10: the work image is the pipeline applied to the original with the
\* current control values, and every stored image is the pipeline applied to
\* its upload with the filter values of its record.
C10_FiltersMatchImage ==
    /\ current_work_image # NoImage =>
          /\ current_original_image # NoImage
          /\ current_work_image = pipeline(current_original_image, var_grayscale,
                                           blur_var, brightness_var, contrast_var)
    /\ \A i \in DOMAIN images :
          exists(files, images[i].saved_path) =>
             files[images[i].saved_path]
                = pipeline(original_of(images[i]), images[i].filters.grayscale,
                           images[i].filters.blur, images[i].filters.brightness,
                           images[i].filters.contrast)

\* C10 witness: the gallery lists an image saved with grayscale and blur 2.0
C10_Witness ==
    /\ page = "GalleryPage"
    /\ \E i \in DOMAIN images :
          /\ images[i].filters.grayscale
          /\ images[i].filters.blur = 20000
          /\ images[i].username = current_user
          /\ gallery = << images[i].saved_path >>
          /\ files[images[i].saved_path].ops = << <<"grayscale", 0>>, <<"blur", 20000>> >>

\* a step that loads the board record with this id, from the boards list or
\* from the Load Board dialog
loads(id) ==
    \/ \E idx \in DOMAIN board_docs :
          on_board_select(idx) /\ board_docs[idx].id = id
    \/ \E pick \in 1 .. Len(boards) :
          /\ load_board_dialog(pick)
          /\ LET docs == SortDesc({ d \in Range(boards) : d.username = current_user })
             IN pick \in DOMAIN docs /\ docs[pick].id = id

\* C11: loading a board goes through whatever its layout holds: the board
\* becomes the open board, the canvas holds exactly the entries whose file
\* exists, in layout order and at their stored positions, and the stored
\* records, dangling entries included, are as they were.
C11_LoadSkipsDangling ==
    [][\A i \in DOMAIN boards :
          loads(boards[i].id) =>
             LET live == SelectSeq(boards[i].layout,
                                   LAMBDA e : e.path # NoPath /\ exists(files, e.path))
             IN /\ current_board' = boards[i].board_name
                /\ Len(board_items') = Len(live)
                /\ \A k \in DOMAIN live :
                      /\ board_items'[k].path = live[k].path
                      /\ board_items'[k].x = live[k].x
                      /\ board_items'[k].y = live[k].y
                      /\ coords(canvas', board_items'[k].id) = <<live[k].x, live[k].y>>
                /\ boards' = boards]_vars

\* C11 witness: the open board's record has an entry whose file is gone, and
\* the canvas holds the other entries, fewer than the layout has
C11_Witness ==
    /\ page = "MoodBoardPage"
    /\ \E i \in DOMAIN boards :
          /\ boards[i].board_name = current_board
          /\ \E k \in DOMAIN boards[i].layout : ~exists(files, boards[i].layout[k].path)
          /\ Len(board_items) = 2
          /\ Len(boards[i].layout) = 3
          /\ \A k \in DOMAIN board_items : exists(files, board_items[k].path)

\* C12: the drag gesture has two states. An item is selected only while the
\* button is held after a click that hit a placed item; the selection appears
\* only by such a click and goes only by the release; a click that hits
\* nothing leaves none selected, the release always leaves none selected, and
\* a drag with none selected moves nothing.
C12_DragStateMachine ==
    /\ [](selected_item # 0 =>
             /\ button_down
             /\ \E m \in Range(board_items) : m.id = selected_item)
    /\ [][/\ \A pt \in ClickPoints :
                (on_canvas_click(pt) /\ find_overlapping(canvas, pt) = <<>>)
                   => selected_item' = 0
          /\ on_canvas_release => selected_item' = 0
          /\ \A pt \in DragPoints :
                (on_canvas_drag(pt) /\ selected_item = 0)
                   => (canvas' = canvas /\ board_items' = board_items)
          /\ (selected_item = 0 /\ selected_item' # 0)
                => \E pt \in ClickPoints :
                      /\ on_canvas_click(pt)
                      /\ find_overlapping(canvas, pt) # <<>>
          /\ (selected_item # 0 /\ selected_item' = 0) => on_canvas_release]_vars

\* C12 witness: a whole gesture is over: three entries are on the canvas, one
\* of them away from where it was loaded, and none is selected
C12_Witness ==
    /\ ~button_down /\ selected_item = 0
    /\ Len(board_items) = 3
    /\ \E k \in DOMAIN board_items :
          <<board_items[k].x, board_items[k].y>> # <<SavedLayout[k].x, SavedLayout[k].y>>

\* C13: the click on an entry records the pointer's offset from the entry's
\* top-left; every drag after it puts the selected entry's top-left at the
\* pointer minus that offset, on the canvas and in its recorded x, y alike,
\* and leaves every other entry where it was.
C13_DragFollowsPointer ==
    [][/\ \A pt \in ClickPoints :
             (on_canvas_click(pt) /\ selected_item' # 0)
                => drag_offset' = <<pt[1] - coords(canvas, selected_item')[1],
                                    pt[2] - coords(canvas, selected_item')[2]>>
       /\ \A pt \in DragPoints :
             (on_canvas_drag(pt) /\ selected_item # 0)
                => /\ drag_offset' = drag_offset /\ selected_item' = selected_item
                   /\ coords(canvas', selected_item)
                         = <<pt[1] - drag_offset[1], pt[2] - drag_offset[2]>>
                   /\ \A k \in DOMAIN board_items :
                         /\ <<board_items'[k].x, board_items'[k].y>>
                               = coords(canvas', board_items'[k].id)
                         /\ board_items[k].id # selected_item
                               => /\ board_items'[k] = board_items[k]
                                  /\ coords(canvas', board_items[k].id)
                                        = coords(canvas, board_items[k].id)]_vars

\* C13 witness: among three entries the selected one has been dragged away
\* from where it was loaded, the button still held
C13_Witness ==
    /\ button_down /\ selected_item # 0
    /\ Len(board_items) = 3
    /\ \E k \in DOMAIN board_items, pt \in DragPoints :
          /\ board_items[k].id = selected_item
          /\ <<board_items[k].x, board_items[k].y>> # <<SavedLayout[k].x, SavedLayout[k].y>>
          /\ <<board_items[k].x, board_items[k].y>>
                = <<pt[1] - drag_offset[1], pt[2] - drag_offset[2]>>

\* a change of one of the editor's controls, or Reset
adjusts ==
    \/ toggle_grayscale
    \/ \E v \in BlurInputs : scale_blur(v)
    \/ \E v \in EnhInputs : scale_brightness(v)
    \/ \E v \in EnhInputs : scale_contrast(v)
    \/ reset_edits

\* C14: an adjustment leaves the original image as it was; the work image it
\* produces is what apply_filters gives for the original and the new control
\* values whatever the previous work image was, and applying it once more with
\* the same original and values gives the same image again.
C14_FiltersFromOriginal ==
    [][(adjusts /\ current_original_image # NoImage) =>
          /\ current_original_image' = current_original_image
          /\ \A prev \in { NoImage, current_original_image, current_work_image,
                           current_work_image' } :
                current_work_image'
                   = apply_filters(current_original_image, prev, var_grayscale',
                                   blur_var', brightness_var', contrast_var')]_vars

\* C14 witness: after several adjustments of an upload, one of them below its
\* threshold, the work image carries grayscale and brightness only
C14_Witness ==
    /\ page = "EditorPage"
    /\ current_original_image # NoImage
    /\ var_grayscale /\ blur_var = 50 /\ brightness_var = 15000 /\ contrast_var = Neutral
    /\ current_work_image.ops
          = current_original_image.ops \o << <<"grayscale", 0>>, <<"brightness", 15000>> >>

\* C15: every stored path carries a stamp no later than the clock and no two
\* records share a saved_path; a save writes a path that is no file yet, with
\* a stamp later than every earlier one, and leaves every earlier file as it
\* was.
C15_SavePathsDiffer ==
    /\ [](/\ \A i, j \in DOMAIN images :
                images[i].saved_path = images[j].saved_path => i = j
          /\ \A path \in DOMAIN files \ DiskPaths : path[2] <= clock)
    /\ [][(save_within(MaxSaves, MaxSaves) /\ images' # images) =>
             LET out_path == images'[Len(images')].saved_path
             IN /\ out_path \notin DOMAIN files
                /\ out_path \in DOMAIN files'
                /\ \A path \in DOMAIN files \ DiskPaths : out_path[2] > path[2]
                /\ \A path \in DOMAIN files : files'[path] = files[path]]_vars

\* C15 witness: one user has saved the same upload twice, and both files and
\* both records are there
C15_Witness ==
    /\ Len(images) = 2
    /\ images[1].username = images[2].username
    /\ images[1].orig_filename = images[2].orig_filename
    /\ images[1].saved_path # images[2].saved_path
    /\ exists(files, images[1].saved_path) /\ exists(files, images[2].saved_path)

\* the number of user records with this username
count_users(us, u) == Cardinality({ k \in DOMAIN us : us[k].username = u })

\* C16: with two app instances, an instance that found a username free
\* inserts its record whatever the other instance inserted since, so one
\* username gets a second record when both checks come before both inserts;
\* there are never more records of one username than instances.
C16_RegistrationRace ==
    /\ [](\A k \in DOMAIN users :
             count_users(users, users[k].username) <= Cardinality(Instances))
    /\ [][\A i \in Instances, salt \in Salts :
             register_insert(i, salt) =>
                count_users(users', checked[i].u) = count_users(users, checked[i].u) + 1]_vars

\* C16 witness: check, check, insert, insert has happened: two records with
\* one username and nothing pending
C16_Witness ==
    /\ checked = NoChecks
    /\ Len(users) = 2
    /\ users[1].username = users[2].username

\* C17: a Save Board right after the open board was deleted is rejected: it
\* changes no board record.
C17_DeletedBoardStaysDeleted ==
    [][(save_board /\ scn.step = DeletedOpen) => boards' = boards]_vars

\* C18: when Add Image is used with no open board, the open board afterwards
\* is none, or the board created in that call, or the name typed in that call.
C18_AddImageOpensOwnBoard ==
    [][\A create \in BOOLEAN, saved \in BOOLEAN, name1 \in NameInputs,
          pick \in 0 .. Len(images), disk \in AddChoices, name2 \in NameInputs :
          (/\ current_board = ""
           /\ add_image_to_board(create, name1, saved, pick, disk, name2))
          => \/ current_board' = ""
             \/ current_board' = name2
             \/ /\ current_board' = name1
                /\ new_board_msg(current_user, name1) = "Created"]_vars

=============================================================================
